---- MODULE Spec2Model ----
(***************************************************************************)
(* The serialized order-write queue of sheets.ts (queueOrderWrite and      *)
(* processOrderQueue), the CacheManager of cache.ts and the routes of      *)
(* index.ts that use them, as state machines.                              *)
(* JavaScript runs one synchronous section at a time, so every action      *)
(* below is one such section: from the resumption of an await (or a call   *)
(* from outside) to the next await.                                        *)
(***************************************************************************)
EXTENDS Integers, Sequences, FiniteSets

\* ---- bounds of the model ------------------------------------------------
MaxEnq == 4                       \* queueOrderWrite calls in one behaviour
MaxLiveEnq == 3                   \* the same, where progress is checked
MaxScenarioEnq == 3               \* the same, in the always-failing scenario
MaxLossyEnq == 2                  \* the same, where an append may write and throw
MaxMixedEnq == 3                  \* the same, where tasks name different tables
MaxPauseEnq == 3                  \* the same, where tasks arrive during the pause
MaxCacheOps == 3                  \* calls of CacheManager methods that write
MaxTime == 3                      \* the clock runs from 0 to MaxTime
MaxInflight == 2                  \* refresh functions running at one time
CacheTtl == 2                     \* this.ttl, in ticks of the clock
MaxTickOps == 2                   \* setupAutoRefresh calls where the schedule is checked
MaxPending == 2                   \* route handlers waiting on the remote store at one time
MaxOrders == 2                    \* POST /api/orders requests
MaxRouteEnq == 2                  \* appendToSheet calls that go through the queue
MaxDirect == 1                    \* direct appendToSheet calls waiting at one time
MaxDirectRows == 1                \* rows in the tables when a direct appendToSheet call is made

\* ---- program constants --------------------------------------------------
MaxAttempts == 3                  \* while (attempts < 3 && !success)
BackoffBaseMs == 1000             \* setTimeout(res, 1000 * attempts)
BatchPauseMs == 500               \* setTimeout(res, 500)

\* ---- inputs -------------------------------------------------------------
\* A table is the (sheetId, sheetName) pair a task names.
Orders == [sheetId |-> "S1", sheetName |-> "Orders"]
Analytics == [sheetId |-> "S1", sheetName |-> "Analytics"]
Tables == { Orders, Analytics }

\* The tables the server enqueues for: POST /api/orders is the only caller
\* and always names (GOOGLE_SHEET_ID, ORDERS_SHEET_NAME).
OrderTables == { Orders }

\* Tables that appendToSheet is called for besides: an orders table whose
\* name is in capitals, one whose name has "order" inside, and one whose
\* name has no "order" in it.
UpperOrders == [sheetId |-> "S1", sheetName |-> "ORDERS"]
Preorders == [sheetId |-> "S1", sheetName |-> "Preorders"]
Purchases == [sheetId |-> "S1", sheetName |-> "Purchases"]
AllTables == Tables \cup { UpperOrders, Preorders, Purchases }

\* rows: string[][]; a row is a sequence of cells.
RowChoices ==
  { << <<"a">> >>, << <<"b">>, <<"c">> >> }

VARIABLES
  orderWriteQueue,    \* pending task ids, in arrival order
  orderWriteActive,   \* the "a drain loop is running" flag
  tasks,              \* every task ever enqueued; a task's id is its index
  drains,             \* the processOrderQueue calls that are past the guard
  appendCalls,        \* number of appendToSheet calls the queue has issued
  batches,            \* number of batches claimed so far
  settles,            \* number of resolve / reject invocations so far
  remote              \* the remote tables: table -> rows appended so far

VARIABLES
  cache,              \* this.cache: key -> entry, or Absent
  refreshCallbacks,   \* this.refreshCallbacks: key -> refresh function, or NoFn
  refreshIntervals,   \* this.refreshIntervals: key -> timer handle, or NoTimer
  timers,             \* the intervals the runtime holds: set and not cleared
  refreshing,         \* the refresh functions that were called and have not
                      \* returned yet, in the order they were called
  now,                \* Date.now()
  cacheOps,           \* number of writing method calls so far
  lastWrite,          \* key -> the last write of an entry, or its removal
  last                \* the last method call or callback step and its outcome

VARIABLES
  boot,               \* how far initializeCache() has got
  routes,             \* the route handlers and direct appendToSheet calls
                      \* suspended at an await, oldest first
  response,           \* the last response a route handler sent
  stock,              \* the stock cell of the product, in the products sheet
  sold                \* the quantities of the orders answered with success, summed

queueVars == <<orderWriteQueue, orderWriteActive, tasks, drains, appendCalls,
               batches, settles, remote>>
cacheVars == <<cache, refreshCallbacks, refreshIntervals, timers, refreshing,
               now, cacheOps, lastWrite, last>>
serverVars == <<boot, routes, response, stock, sold>>
vars == <<queueVars, cacheVars, serverVars>>

\* ---- helpers ------------------------------------------------------------
Range(s) == {s[i] : i \in DOMAIN s}

\* (mutant) pop() for shift(): the newest task is claimed first
RECURSIVE ClaimBatchNewestFirst(_, _)
ClaimBatchNewestFirst(queue, batch) ==
  IF Len(queue) > 0
    THEN ClaimBatchNewestFirst(SubSeq(queue, 1, Len(queue) - 1),
                               Append(batch, queue[Len(queue)]))
    ELSE <<batch, queue>>

\* (mutant) the batch is filled from the pending list, which is left as it was
ClaimBatchCopy(queue, batch) == <<batch \o queue, queue>>

\* while (orderWriteQueue.length > 0) batch.push(orderWriteQueue.shift()!)
\* The pair <<batch, what is left of the queue>>.
RECURSIVE ClaimBatch(_, _)
ClaimBatch(queue, batch) ==
  IF Len(queue) > 0
    THEN ClaimBatch(Tail(queue), Append(batch, Head(queue)))
    ELSE <<batch, queue>>

\* (mutant) the tasks' rows joined last task first
RECURSIVE FlatMapRowsReversed(_, _)
FlatMapRowsReversed(batch, ts) ==
  IF batch = <<>> THEN <<>>
  ELSE FlatMapRowsReversed(Tail(batch), ts) \o ts[Head(batch)].rows

\* batch.flatMap(task => task.rows), over the task table ts
RECURSIVE FlatMapRows(_, _)
FlatMapRows(batch, ts) ==
  IF batch = <<>> THEN <<>>
  ELSE ts[Head(batch)].rows \o FlatMapRows(Tail(batch), ts)

\* (mutant) the guard without the flag
EarlyReturnNoFlag(active, queue) == Len(queue) = 0

\* if (orderWriteActive || orderWriteQueue.length === 0) return;
EarlyReturn(active, queue) == active \/ Len(queue) = 0

\* (mutant) the loop condition without the success test
RetryIgnoringSuccess(attempts, success) == attempts < MaxAttempts

\* while (attempts < 3 && !success)
RetryAgain(attempts, success) == attempts < MaxAttempts /\ ~success

\* (mutants) the give-up test off by one, either way
ExhaustedLate(attempts) == attempts > MaxAttempts
ExhaustedEarly(attempts) == attempts >= MaxAttempts - 1

\* if (attempts >= 3)
Exhausted(attempts) == attempts >= MaxAttempts

\* (mutant) the same wait before every retry
BackoffDelayConstant(attempts) == BackoffBaseMs

\* 1000 * attempts
BackoffDelay(attempts) == BackoffBaseMs * attempts

\* (mutant) the rows are gathered again on every attempt
AttemptRowsRecomputed(allRows, queue, ts) == allRows \o FlatMapRows(queue, ts)

\* The rows an attempt sends: the const allRows computed when the batch was
\* claimed (the pending list is not read again).
AttemptRows(allRows, queue, ts) == allRows

\* What a promise is settled with: true, or the error thrown by append call c.
NoValue == [kind |-> "none", call |-> 0]
TrueValue == [kind |-> "true", call |-> 0]
ErrorOf(c) == [kind |-> "error", call |-> c]

\* task.resolve(true) / task.reject(err) on one task record; n is the
\* position of this invocation among all settlements.  A promise keeps its
\* first settlement; the invocations are counted.
SettleTask(t, kind, value, n) ==
  [t EXCEPT !.status = IF @ = "pending" THEN kind ELSE @,
            !.value = IF t.status = "pending" THEN value ELSE @,
            !.settledAt = IF t.status = "pending" THEN n ELSE @,
            !.resolves = IF kind = "resolved" THEN @ + 1 ELSE @,
            !.rejects = IF kind = "rejected" THEN @ + 1 ELSE @]

\* ---- the state as one record, so that a synchronous section composes -----
World ==
  [queue |-> orderWriteQueue, active |-> orderWriteActive, tasks |-> tasks,
   drains |-> drains, appendCalls |-> appendCalls, batches |-> batches,
   settles |-> settles, remote |-> remote]

\* The append calls that have returned or thrown so far.
AppendsCompleted(w) ==
  w.appendCalls - Cardinality({d \in DOMAIN w.drains : w.drains[d].pc = "appending"})

\* batch.forEach(task => task.resolve(true)) / batch.forEach(task => task.reject(err))
RECURSIVE SettleAll(_, _, _, _)
SettleAll(w, batch, kind, value) ==
  IF batch = <<>> THEN w
  ELSE SettleAll([w EXCEPT !.settles = @ + 1,
                           !.tasks[Head(batch)] =
                              SettleTask(@, kind, value, w.settles + 1)],
                 Tail(batch), kind, value)

\* The locals of a processOrderQueue call that has not claimed a batch yet.
FreshDrain ==
  [pc |-> "start", batchNo |-> 0, batch |-> <<>>, table |-> Orders,
   allRows |-> <<>>, attempts |-> 0, success |-> FALSE,
   call |-> 0, callsMade |-> 0, firstRows |-> <<>>, sentRows |-> <<>>,
   delay |-> 0, waited |-> 0, base |-> 0, writes |-> 0]

\* await appendToSheet(sheetId, sheetName, allRows, false): the call is
\* issued and drain d is suspended until it returns or throws.
IssueAppend(w, d) ==
  LET dr   == w.drains[d]
      rows == AttemptRows(dr.allRows, w.queue, w.tasks)
  IN [w EXCEPT !.appendCalls = @ + 1,
               !.drains[d] =
                  [dr EXCEPT !.pc = "appending", !.delay = 0,
                             !.call = w.appendCalls + 1,
                             !.callsMade = @ + 1,
                             !.firstRows = IF dr.callsMade = 0 THEN rows ELSE @,
                             !.sentRows = rows]]

\* (mutant) the flag is cleared before the pause
AttemptLoopReleases(w, d) ==
  LET dr == w.drains[d]
  IN IF RetryAgain(dr.attempts, dr.success)
       THEN IssueAppend(w, d)
       ELSE [w EXCEPT !.active = FALSE,
                      !.drains[d] = [dr EXCEPT !.pc = "pause",
                                               !.delay = BatchPauseMs]]

\* The head of the inner loop: try again, or leave the loop for the pause.
AttemptLoop(w, d) ==
  LET dr == w.drains[d]
  IN IF RetryAgain(dr.attempts, dr.success)
       THEN IssueAppend(w, d)
       ELSE [w EXCEPT !.drains[d] = [dr EXCEPT !.pc = "pause",
                                               !.delay = BatchPauseMs]]

\* sheetsClient.spreadsheets.values.append(...) taking effect for drain d's
\* call: the rows sent are added at the end of the table the call names.
\* Each task of the batch counts the times its rows were written.
RECURSIVE CountWritten(_, _)
CountWritten(ts, batch) ==
  IF batch = <<>> THEN ts
  ELSE CountWritten([ts EXCEPT ![Head(batch)].written = @ + 1], Tail(batch))

WriteRows(w, d) ==
  LET dr == w.drains[d]
  IN [w EXCEPT !.remote[dr.table] = @ \o dr.sentRows,
               !.drains[d].writes = @ + 1,
               !.tasks = CountWritten(@, dr.batch)]

\* The call wrote its rows and then threw (the acknowledgement was lost):
\* each task of the batch counts the writes it was not told of.
RECURSIVE CountLost(_, _)
CountLost(ts, batch) ==
  IF batch = <<>> THEN ts
  ELSE CountLost([ts EXCEPT ![Head(batch)].lost = @ + 1], Tail(batch))

LoseAck(w, d) == [w EXCEPT !.tasks = CountLost(@, w.drains[d].batch)]

\* catch (err) { attempts++; if (attempts >= 3) reject all; else back off }
\* err is the error thrown by this call, named by the call's number.
CatchErr(w, d) ==
  LET dr == w.drains[d]
      n  == dr.attempts + 1
      w0 == [w EXCEPT !.drains[d].attempts = n]
  IN IF Exhausted(n)
       THEN AttemptLoop(SettleAll(w0, dr.batch, "rejected", ErrorOf(dr.call)), d)
       ELSE [w0 EXCEPT !.drains[d].pc = "backoff",
                       !.drains[d].delay = BackoffDelay(n),
                       !.drains[d].waited = @ + BackoffDelay(n)]

\* drains without its d-th element: the call has returned.
RemoveDrain(ds, d) ==
  SubSeq(ds, 1, d - 1) \o SubSeq(ds, d + 1, Len(ds))

\* (mutant) no outer loop: the call returns after the pause of its first
\* batch, whatever is pending
DrainLoopOnce(w, d) ==
  IF Len(w.queue) > 0 /\ w.drains[d].batchNo = 0
    THEN LET cb    == ClaimBatch(w.queue, <<>>)
             batch == cb[1]
             no    == w.batches + 1
             first == w.tasks[batch[1]]
             dr    == [FreshDrain EXCEPT
                         !.batchNo = no, !.batch = batch,
                         !.table = [sheetId |-> first.sheetId,
                                    sheetName |-> first.sheetName],
                         !.allRows = FlatMapRows(batch, w.tasks),
                         !.base = Len(w.remote[[sheetId |-> first.sheetId,
                                                sheetName |-> first.sheetName]])]
             w1    == [w EXCEPT
                         !.queue = cb[2], !.batches = no, !.drains[d] = dr,
                         !.tasks = [i \in DOMAIN w.tasks |->
                                      IF i \in Range(batch)
                                        THEN [w.tasks[i] EXCEPT !.batchNo = no,
                                                                !.claimed = @ + 1]
                                        ELSE w.tasks[i]]]
         IN AttemptLoop(w1, d)
    ELSE [w EXCEPT !.active = FALSE, !.drains = RemoveDrain(@, d)]

\* The head of the outer loop: claim everything pending as one batch and
\* start on it, or clear the flag and return.  The batch is never empty
\* here, so the break on an empty batch is not taken.
DrainLoop(w, d) ==
  IF Len(w.queue) > 0
    THEN LET cb    == ClaimBatch(w.queue, <<>>)
             batch == cb[1]
             no    == w.batches + 1
             first == w.tasks[batch[1]]
             dr    == [FreshDrain EXCEPT
                         !.batchNo = no, !.batch = batch,
                         !.table = [sheetId |-> first.sheetId,
                                    sheetName |-> first.sheetName],
                         !.allRows = FlatMapRows(batch, w.tasks),
                         !.base = Len(w.remote[[sheetId |-> first.sheetId,
                                                sheetName |-> first.sheetName]])]
             w1    == [w EXCEPT
                         !.queue = cb[2], !.batches = no, !.drains[d] = dr,
                         !.tasks = [i \in DOMAIN w.tasks |->
                                      IF i \in Range(batch)
                                        THEN [w.tasks[i] EXCEPT !.batchNo = no,
                                                                !.claimed = @ + 1]
                                        ELSE w.tasks[i]]]
         IN AttemptLoop(w1, d)
    ELSE [w EXCEPT !.active = FALSE, !.drains = RemoveDrain(@, d)]

\* async function processOrderQueue(), up to its first await
ProcessOrderQueue(w) ==
  IF EarlyReturn(w.active, w.queue)
    THEN w
    ELSE DrainLoop([w EXCEPT !.active = TRUE,
                             !.drains = Append(@, FreshDrain)],
                   Len(w.drains) + 1)

InstallQueue(w) ==
  /\ orderWriteQueue' = w.queue
  /\ orderWriteActive' = w.active
  /\ tasks' = w.tasks
  /\ drains' = w.drains
  /\ appendCalls' = w.appendCalls
  /\ batches' = w.batches
  /\ settles' = w.settles
  /\ remote' = w.remote

\* The same, in a step that touches nothing but the queue.
Install(w) ==
  /\ InstallQueue(w)
  /\ UNCHANGED <<cacheVars, serverVars>>

\* ---- the cache: values ---------------------------------------------------
\* The keys the server caches under.
Keys == { "products", "filters" }
\* What is stored: the argument of set, or what a refresh function returns.
Data == { "d1", "d2" }
\* The refresh functions a caller registers, and the errors one throws.
Fns == { "f1", "f2" }
Errors == { "e1", "e2" }

\* Map.get(key) of a key the map does not hold, in the three maps.
Absent == [present |-> FALSE, data |-> "undefined", timestamp |-> 0, expiresAt |-> 0]
NoFn == "undefined"
NoTimer == 0
\* the null that get returns
Null == [present |-> FALSE, data |-> "null", timestamp |-> 0, expiresAt |-> 0]

\* What a call or a callback ends with.
NoOut == [kind |-> "none", value |-> "-"]
NullOut == [kind |-> "null", value |-> "-"]
DataOut(v) == [kind |-> "data", value |-> v]
ThrownOut(e) == [kind |-> "error", value |-> e]
LoggedOut(e) == [kind |-> "logged", value |-> e]

\* ---- the cache: the methods ------------------------------------------------
\* (mutant) get drops an entry that has expired
GetEvicting(c, key, t) ==
  IF ~c[key].present \/ t >= c[key].expiresAt THEN Null ELSE c[key]

\* get(key): the entry, or null; the clock t is not read.
Get(c, key, t) == IF ~c[key].present THEN Null ELSE c[key]

\* (mutant) an entry is still fresh at the instant it expires
IsFreshInclusive(c, key, t) ==
  IF ~c[key].present THEN FALSE ELSE t <= c[key].expiresAt

\* isFresh(key), called at time t
IsFresh(c, key, t) == IF ~c[key].present THEN FALSE ELSE t < c[key].expiresAt

\* getAge(key), called at time t; -1 stands for null
GetAge(c, key, t) == IF ~c[key].present THEN -1 ELSE t - c[key].timestamp

\* set(key, data), called at time t
SetEntry(c, key, data, t) ==
  [c EXCEPT ![key] = [present |-> TRUE, data |-> data,
                      timestamp |-> t, expiresAt |-> t + CacheTtl]]

\* (mutant) a refresh stores an entry that expires at once
RefreshStoreExpired(c, key, data, t) ==
  [c EXCEPT ![key] = [present |-> TRUE, data |-> data,
                      timestamp |-> t, expiresAt |-> t]]

\* (mutant) a refresh does not replace an entry that is there
RefreshStoreIfAbsent(c, key, data, t) ==
  IF c[key].present THEN c ELSE SetEntry(c, key, data, t)

\* this.set(key, newData) after await refreshFn(), at time t
RefreshStore(c, key, data, t) == SetEntry(c, key, data, t)

\* The three maps and the runtime's intervals as one record.
CacheWorld ==
  [cache |-> cache, callbacks |-> refreshCallbacks,
   intervals |-> refreshIntervals, timers |-> timers]

\* The handle setInterval returns: one that no live interval has.
FreeTimerId(ts) ==
  CHOOSE n \in 1..(Cardinality(ts) + 1) :
     /\ \A t \in ts : t.id # n
     /\ \A m \in 1..(n - 1) : \E t \in ts : t.id = m

\* (mutant) the interval is left running
StopAutoRefreshLeaks(cw, key) == cw

\* (mutant) stopAutoRefresh forgets the refresh function as well
StopAutoRefreshForgets(cw, key) ==
  [cw EXCEPT !.timers = {t \in @ : t.id # cw.intervals[key]},
             !.intervals[key] = NoTimer,
             !.callbacks[key] = NoFn]

\* (mutant) stopAutoRefresh clears every interval
StopAutoRefreshAll(cw, key) ==
  [cw EXCEPT !.timers = {}, !.intervals = [k \in Keys |-> NoTimer]]

\* stopAutoRefresh(key)
StopAutoRefresh(cw, key) ==
  IF cw.intervals[key] # NoTimer
    THEN [cw EXCEPT !.timers = {t \in @ : t.id # cw.intervals[key]},
                    !.intervals[key] = NoTimer]
    ELSE cw

\* (mutant) the interval fires at once, then every ttl
SetupAutoRefreshFiresNow(cw, key, fn, t) ==
  LET c1 == StopAutoRefresh([cw EXCEPT !.callbacks[key] = fn], key)
      id == FreeTimerId(c1.timers)
  IN [c1 EXCEPT !.timers = @ \cup {[id |-> id, key |-> key, fn |-> fn,
                                    since |-> t, due |-> t]},
                !.intervals[key] = id]

\* setupAutoRefresh(key, refreshFn), called at time t: the interval first
\* fires one ttl later and calls the refreshFn it was created with.
SetupAutoRefresh(cw, key, fn, t) ==
  LET c1 == StopAutoRefresh([cw EXCEPT !.callbacks[key] = fn], key)
      id == FreeTimerId(c1.timers)
  IN [c1 EXCEPT !.timers = @ \cup {[id |-> id, key |-> key, fn |-> fn,
                                    since |-> t, due |-> t + CacheTtl]},
                !.intervals[key] = id]

\* (mutant) delete leaves the key's interval running
DeleteKeyKeepsTimer(cw, key) == [cw EXCEPT !.cache[key] = Absent]

\* delete(key)
DeleteKey(cw, key) == StopAutoRefresh([cw EXCEPT !.cache[key] = Absent], key)

\* clear()
ClearAll(cw) ==
  [cache     |-> [k \in Keys |-> Absent],
   timers    |-> {t \in cw.timers : \A k \in Keys : cw.intervals[k] # t.id},
   intervals |-> [k \in Keys |-> NoTimer],
   callbacks |-> [k \in Keys |-> NoFn]]

\* (mutant) every key is taken to have a refresh function
HasRefresherAlways(callbacks, key) == TRUE

\* forceRefresh: if (!refreshFn) is not taken
HasRefresher(callbacks, key) == callbacks[key] # NoFn

\* (mutant) the interval callback drops the entry when the refresh fails
TimerCatchDropsEntry(cw, key, e) == [cw |-> DeleteKey(cw, key), out |-> LoggedOut(e)]

\* The interval callback's catch (error): the error is logged and the
\* callback returns.
TimerCatch(cw, key, e) == [cw |-> cw, out |-> LoggedOut(e)]

\* (mutant) forceRefresh swallows the error and returns null
ForceCatchSwallows(cw, key, e) == [cw |-> cw, out |-> NullOut]

\* forceRefresh's catch (error): the error is logged and thrown again.
ForceCatch(cw, key, e) == [cw |-> cw, out |-> ThrownOut(e)]

\* (mutant) the keys that have a refresh function registered
AutoRefreshKeysByCallback(cw) == {k \in Keys : cw.callbacks[k] # NoFn}

\* Array.from(this.refreshIntervals.keys()), as a set
AutoRefreshKeys(cw) == {k \in Keys : cw.intervals[k] # NoTimer}

\* getStats(); the two arrays as sets
GetStats(cw) ==
  LET keys == {k \in Keys : cw.cache[k].present}
  IN [keys |-> keys, totalEntries |-> Cardinality(keys),
      autoRefreshKeys |-> AutoRefreshKeys(cw)]

\* What lastWrite remembers of a key: the last entry written, or that none
\* was written since the key was created or removed.
NeverWritten == [live |-> FALSE, data |-> "-", at |-> 0, by |-> "-"]
Written(data, t, by) == [live |-> TRUE, data |-> data, at |-> t, by |-> by]

InstallCache(cw) ==
  /\ cache' = cw.cache
  /\ refreshCallbacks' = cw.callbacks
  /\ refreshIntervals' = cw.intervals
  /\ timers' = cw.timers

\* ---- appendToSheet: which path a call takes ----------------------------------
\* A string as the sequence of its characters.
Letters(s) ==
  CASE s = "Orders"    -> <<"O", "r", "d", "e", "r", "s">>
    [] s = "ORDERS"    -> <<"O", "R", "D", "E", "R", "S">>
    [] s = "Preorders" -> <<"P", "r", "e", "o", "r", "d", "e", "r", "s">>
    [] s = "Purchases" -> <<"P", "u", "r", "c", "h", "a", "s", "e", "s">>
    [] s = "Analytics" -> <<"A", "n", "a", "l", "y", "t", "i", "c", "s">>
    [] s = "order"     -> <<"o", "r", "d", "e", "r">>

\* One character of String.prototype.toLowerCase()
LowerOf(ch) ==
  CASE ch = "A" -> "a" [] ch = "D" -> "d" [] ch = "E" -> "e" [] ch = "O" -> "o"
    [] ch = "P" -> "p" [] ch = "R" -> "r" [] ch = "S" -> "s" [] OTHER -> ch

\* (mutant) the name is compared as it is written
ToLowerCaseKeepsCase(chars) == chars

\* sheetName.toLowerCase()
ToLowerCase(chars) == [i \in DOMAIN chars |-> LowerOf(chars[i])]

\* haystack.includes(needle)
Includes(haystack, needle) ==
  \E i \in 1..(Len(haystack) - Len(needle) + 1) :
     SubSeq(haystack, i, i + Len(needle) - 1) = needle

\* if (useQueue && sheetName.toLowerCase().includes('order'))
UsesQueue(sheetName, useQueue) ==
  useQueue /\ Includes(ToLowerCase(Letters(sheetName)), Letters("order"))

\* ---- the routes: values ----------------------------------------------------
Products == "products"
Filters == "filters"

\* The function initializeCache registers for the products key: it fetches
\* the products, stores the filters extracted from them and returns them.
ProductsRefresher == "refreshProducts"

\* extractFilterOptions(products)
ExtractFilterOptions(products) == IF products = "d1" THEN "filters(d1)" ELSE "filters(d2)"

\* The stock of the product before any order, and what an order may ask for.
InitialStock == 3
Quantities == { 1, 2 }

NoResponse == [route |-> "-", success |-> FALSE, data |-> "-", from |-> "-"]
Respond(route, success, data, from) ==
  [route |-> route, success |-> success, data |-> data, from |-> from]

\* (mutant) only a fresh entry counts as cached
CachedIfFresh(c, key, t) == IsFresh(c, key, t)

\* const cached = cache.get(key); if (cached)
Cached(c, key, t) == Get(c, key, t) # Null

\* ---- initial state -------------------------------------------------------
Init ==
  /\ orderWriteQueue = <<>>
  /\ orderWriteActive = FALSE
  /\ tasks = <<>>
  /\ drains = <<>>
  /\ appendCalls = 0
  /\ batches = 0
  /\ settles = 0
  /\ remote = [t \in AllTables |-> <<>>]
  /\ cache = [k \in Keys |-> Absent]
  /\ refreshCallbacks = [k \in Keys |-> NoFn]
  /\ refreshIntervals = [k \in Keys |-> NoTimer]
  /\ timers = {}
  /\ refreshing = <<>>
  /\ now = 0
  /\ cacheOps = 0
  /\ lastWrite = [k \in Keys |-> NeverWritten]
  /\ last = [op |-> "new", key |-> "-", out |-> NoOut]
  /\ boot = "idle"
  /\ routes = <<>>
  /\ response = NoResponse
  /\ stock = InitialStock
  /\ sold = 0

\* ---- actions -------------------------------------------------------------
\* queueOrderWrite(sheetId, sheetName, rows)
Enqueued(w0, table, rows) ==
  LET id == Len(w0.tasks) + 1
      t  == [sheetId |-> table.sheetId, sheetName |-> table.sheetName,
             rows |-> rows,
             status |-> "pending", value |-> NoValue, resolves |-> 0, rejects |-> 0,
             settledAt |-> 0, batchNo |-> 0, claimed |-> 0,
             written |-> 0, lost |-> 0,
             seenBatches |-> w0.batches,
             early |-> AppendsCompleted(w0) = 0]
      w  == [w0 EXCEPT !.tasks = Append(@, t), !.queue = Append(@, id)]
  IN ProcessOrderQueue(w)

QueueOrderWrite(table, rows) ==
  /\ Len(tasks) < MaxEnq
  /\ Install(Enqueued(World, table, rows))

\* The append drain d is waiting on returns: the rows are in the table and
\* the drain resumes in one step; success = true; every task of the batch
\* is resolved; the drain runs on to its next await.
AppendOk(d) ==
  /\ d \in DOMAIN drains
  /\ drains[d].pc = "appending"
  /\ LET dr == drains[d]
         w0 == [WriteRows(World, d) EXCEPT !.drains[d].success = TRUE]
         w1 == SettleAll(w0, dr.batch, "resolved", TrueValue)
     IN Install(AttemptLoop(w1, d))

\* The append drain d is waiting on throws, nothing having been written:
\* catch (err) { attempts++; ... }.
AppendFail(d) ==
  /\ d \in DOMAIN drains
  /\ drains[d].pc = "appending"
  /\ Install(CatchErr(World, d))

\* The append drain d is waiting on takes effect in the table and then
\* throws (a timeout after the remote side applied the write): the rows are
\* in the table and the drain takes the catch path.
AppendLost(d) ==
  /\ d \in DOMAIN drains
  /\ drains[d].pc = "appending"
  /\ Install(CatchErr(LoseAck(WriteRows(World, d), d), d))

\* The backoff timer fires: back to the head of the inner loop.
BackoffFire(d) ==
  /\ d \in DOMAIN drains
  /\ drains[d].pc = "backoff"
  /\ Install(AttemptLoop(World, d))

\* The inter-batch timer fires: back to the head of the outer loop.
PauseFire(d) ==
  /\ d \in DOMAIN drains
  /\ drains[d].pc = "pause"
  /\ Install(DrainLoop(World, d))

Next ==
  \/ \E table \in OrderTables, rows \in RowChoices : QueueOrderWrite(table, rows)
  \/ \E d \in DOMAIN drains : AppendOk(d)
  \/ \E d \in DOMAIN drains : AppendFail(d)
  \/ \E d \in DOMAIN drains : BackoffFire(d)
  \/ \E d \in DOMAIN drains : PauseFire(d)

Spec == Init /\ [][Next]_vars

\* The scheduling the claims about progress assume: an append that was
\* issued returns or throws, and a timer that was set fires.
AppendReturns == \E d \in DOMAIN drains : AppendOk(d) \/ AppendFail(d)
TimerFires == \E d \in DOMAIN drains : BackoffFire(d) \/ PauseFire(d)
LiveNext ==
  \/ \E table \in OrderTables, rows \in RowChoices :
        Len(tasks) < MaxLiveEnq /\ QueueOrderWrite(table, rows)
  \/ \E d \in DOMAIN drains : AppendOk(d)
  \/ \E d \in DOMAIN drains : AppendFail(d)
  \/ \E d \in DOMAIN drains : BackoffFire(d)
  \/ \E d \in DOMAIN drains : PauseFire(d)
FairSpec ==
  Init /\ [][LiveNext]_vars /\ WF_vars(AppendReturns) /\ WF_vars(TimerFires)

\* The scenario of two enqueues against an append that always throws.
ScenarioRowsA == << <<"a">> >>
ScenarioRowsB == << <<"b">> >>
FailNext ==
  \/ \E rows \in {ScenarioRowsA, ScenarioRowsB} :
        Len(tasks) < MaxScenarioEnq /\ QueueOrderWrite(Orders, rows)
  \/ \E d \in DOMAIN drains : AppendFail(d)
  \/ \E d \in DOMAIN drains : BackoffFire(d)
  \/ \E d \in DOMAIN drains : PauseFire(d)
FailSpec == Init /\ [][FailNext]_vars

\* The scenario of tasks that arrive only on an idle, empty queue or while
\* a drain loop is in its pause between two batches.
PauseNext ==
  \/ \E rows \in RowChoices :
        /\ Len(tasks) < MaxPauseEnq
        /\ tasks = <<>> \/ \E d \in DOMAIN drains : drains[d].pc = "pause"
        /\ QueueOrderWrite(Orders, rows)
  \/ \E d \in DOMAIN drains : AppendOk(d)
  \/ \E d \in DOMAIN drains : AppendFail(d)
  \/ \E d \in DOMAIN drains : BackoffFire(d)
  \/ \E d \in DOMAIN drains : PauseFire(d)
PauseSpec == Init /\ [][PauseNext]_vars

\* The queue against an append whose failure is ambiguous: a call returns,
\* throws having written nothing, or throws having written its rows.
LossyNext ==
  \/ \E table \in OrderTables, rows \in RowChoices :
        Len(tasks) < MaxLossyEnq /\ QueueOrderWrite(table, rows)
  \/ \E d \in DOMAIN drains : AppendOk(d)
  \/ \E d \in DOMAIN drains : AppendFail(d)
  \/ \E d \in DOMAIN drains : AppendLost(d)
  \/ \E d \in DOMAIN drains : BackoffFire(d)
  \/ \E d \in DOMAIN drains : PauseFire(d)
LossySpec == Init /\ [][LossyNext]_vars

\* The queue with callers that name any table: queueOrderWrite is exported
\* and takes the table from its caller.
MixedNext ==
  \/ \E table \in Tables, rows \in RowChoices :
        Len(tasks) < MaxMixedEnq /\ QueueOrderWrite(table, rows)
  \/ \E d \in DOMAIN drains : AppendOk(d)
  \/ \E d \in DOMAIN drains : AppendFail(d)
  \/ \E d \in DOMAIN drains : BackoffFire(d)
  \/ \E d \in DOMAIN drains : PauseFire(d)
MixedSpec == Init /\ [][MixedNext]_vars

\* ---- the cache: actions ---------------------------------------------------
\* refreshing without its i-th element: the call has returned.
RemoveRefresh(rs, i) == SubSeq(rs, 1, i - 1) \o SubSeq(rs, i + 1, Len(rs))

\* cache.set(key, data)
CacheSet(key, data) ==
  /\ cacheOps < MaxCacheOps
  /\ cache' = SetEntry(cache, key, data, now)
  /\ lastWrite' = [lastWrite EXCEPT ![key] = Written(data, now, "set")]
  /\ cacheOps' = cacheOps + 1
  /\ last' = [op |-> "set", key |-> key, out |-> NoOut]
  /\ UNCHANGED <<refreshCallbacks, refreshIntervals, timers, refreshing, now>>
  /\ UNCHANGED <<queueVars, serverVars>>

\* cache.delete(key)
CacheDelete(key) ==
  /\ cacheOps < MaxCacheOps
  /\ InstallCache(DeleteKey(CacheWorld, key))
  /\ lastWrite' = [lastWrite EXCEPT ![key] = NeverWritten]
  /\ cacheOps' = cacheOps + 1
  /\ last' = [op |-> "delete", key |-> key, out |-> NoOut]
  /\ UNCHANGED <<refreshing, now>>
  /\ UNCHANGED <<queueVars, serverVars>>

\* cache.clear()
CacheClear ==
  /\ cacheOps < MaxCacheOps
  /\ InstallCache(ClearAll(CacheWorld))
  /\ lastWrite' = [k \in Keys |-> NeverWritten]
  /\ cacheOps' = cacheOps + 1
  /\ last' = [op |-> "clear", key |-> "-", out |-> NoOut]
  /\ UNCHANGED <<refreshing, now>>
  /\ UNCHANGED <<queueVars, serverVars>>

\* cache.setupAutoRefresh(key, fn)
CacheSetupAutoRefresh(key, fn) ==
  /\ cacheOps < MaxCacheOps
  /\ InstallCache(SetupAutoRefresh(CacheWorld, key, fn, now))
  /\ cacheOps' = cacheOps + 1
  /\ last' = [op |-> "setupAutoRefresh", key |-> key, out |-> NoOut]
  /\ UNCHANGED <<refreshing, now, lastWrite>>
  /\ UNCHANGED <<queueVars, serverVars>>

\* cache.stopAutoRefresh(key)
CacheStopAutoRefresh(key) ==
  /\ cacheOps < MaxCacheOps
  /\ InstallCache(StopAutoRefresh(CacheWorld, key))
  /\ cacheOps' = cacheOps + 1
  /\ last' = [op |-> "stopAutoRefresh", key |-> key, out |-> NoOut]
  /\ UNCHANGED <<refreshing, now, lastWrite>>
  /\ UNCHANGED <<queueVars, serverVars>>

\* cache.forceRefresh(key), up to its await: null if no refresh function is
\* registered, else the function is called.
CacheForceRefresh(key) ==
  /\ cacheOps < MaxCacheOps
  /\ cacheOps' = cacheOps + 1
  /\ IF HasRefresher(refreshCallbacks, key)
       THEN /\ Len(refreshing) < MaxInflight
            /\ refreshing' = Append(refreshing,
                  [key |-> key, fn |-> refreshCallbacks[key], by |-> "force", at |-> now])
            /\ last' = [op |-> "forceRefresh", key |-> key, out |-> NoOut]
       ELSE /\ refreshing' = refreshing
            /\ last' = [op |-> "forceRefresh", key |-> key, out |-> NullOut]
  /\ UNCHANGED <<cache, refreshCallbacks, refreshIntervals, timers, now, lastWrite>>
  /\ UNCHANGED <<queueVars, serverVars>>

\* (mutant) the callback calls nothing while a call for its key is running
TimerTickSkipsBusy(t) ==
  /\ t \in timers
  /\ t.due = now
  /\ Len(refreshing) < MaxInflight
  /\ timers' = (timers \ {t}) \cup {[t EXCEPT !.due = now + CacheTtl]}
  /\ refreshing' = IF \E i \in DOMAIN refreshing : refreshing[i].key = t.key
                     THEN refreshing
                     ELSE Append(refreshing,
                            [key |-> t.key, fn |-> t.fn, by |-> "timer", at |-> now])
  /\ last' = [op |-> "tick", key |-> t.key, out |-> NoOut]
  /\ UNCHANGED <<cache, refreshCallbacks, refreshIntervals, now, cacheOps, lastWrite>>
  /\ UNCHANGED <<queueVars, serverVars>>

\* The interval t fires: its callback calls the refresh function it holds,
\* and the interval is due again one ttl later.
TimerTick(t) ==
  /\ t \in timers
  /\ t.due = now
  /\ Len(refreshing) < MaxInflight
  /\ timers' = (timers \ {t}) \cup {[t EXCEPT !.due = now + CacheTtl]}
  /\ refreshing' = Append(refreshing, [key |-> t.key, fn |-> t.fn, by |-> "timer", at |-> now])
  /\ last' = [op |-> "tick", key |-> t.key, out |-> NoOut]
  /\ UNCHANGED <<cache, refreshCallbacks, refreshIntervals, now, cacheOps, lastWrite>>
  /\ UNCHANGED <<queueVars, serverVars>>

\* The i-th running refresh function returns data: this.set(key, newData),
\* in the interval callback and in forceRefresh alike; forceRefresh
\* returns the data.
RefreshReturn(i, data) ==
  /\ i \in DOMAIN refreshing
  /\ LET r == refreshing[i]
     IN /\ cache' = RefreshStore(cache, r.key, data, now)
        /\ lastWrite' = [lastWrite EXCEPT ![r.key] = Written(data, now, r.by)]
        /\ last' = [op |-> IF r.by = "timer" THEN "tickReturn" ELSE "forceReturn",
                    key |-> r.key,
                    out |-> IF r.by = "timer" THEN NoOut ELSE DataOut(data)]
  /\ refreshing' = RemoveRefresh(refreshing, i)
  /\ UNCHANGED <<refreshCallbacks, refreshIntervals, timers, now, cacheOps>>
  /\ UNCHANGED <<queueVars, serverVars>>

\* The i-th running refresh function throws e (or its promise rejects):
\* the catch block of the caller runs.
RefreshThrow(i, e) ==
  /\ i \in DOMAIN refreshing
  /\ LET r == refreshing[i]
         c == IF r.by = "timer" THEN TimerCatch(CacheWorld, r.key, e)
                                ELSE ForceCatch(CacheWorld, r.key, e)
     IN /\ InstallCache(c.cw)
        /\ last' = [op |-> IF r.by = "timer" THEN "tickThrow" ELSE "forceThrow",
                    key |-> r.key, out |-> c.out]
  /\ refreshing' = RemoveRefresh(refreshing, i)
  /\ lastWrite' = [k \in Keys |->
                     IF cache'[k].present THEN lastWrite[k] ELSE NeverWritten]
  /\ UNCHANGED <<now, cacheOps>>
  /\ UNCHANGED <<queueVars, serverVars>>

\* The clock advances, up to limit, once every interval that is due has
\* fired.
AdvanceTimeTo(limit) ==
  /\ now < limit
  /\ \A t \in timers : t.due > now
  /\ now' = now + 1
  /\ UNCHANGED <<cache, refreshCallbacks, refreshIntervals, timers, refreshing,
                 cacheOps, lastWrite, last>>
  /\ UNCHANGED <<queueVars, serverVars>>

AdvanceTime == AdvanceTimeTo(MaxTime)

CacheNext ==
  \/ \E key \in Keys, data \in Data : CacheSet(key, data)
  \/ \E key \in Keys : CacheDelete(key)
  \/ CacheClear
  \/ \E key \in Keys, fn \in Fns : CacheSetupAutoRefresh(key, fn)
  \/ \E key \in Keys : CacheStopAutoRefresh(key)
  \/ \E key \in Keys : CacheForceRefresh(key)
  \/ \E t \in timers : TimerTick(t)
  \/ \E i \in DOMAIN refreshing, data \in Data : RefreshReturn(i, data)
  \/ \E i \in DOMAIN refreshing, e \in Errors : RefreshThrow(i, e)
  \/ AdvanceTime
CacheSpec == Init /\ [][CacheNext]_vars

\* The cache with setupAutoRefresh as the only method called, over two
\* periods of the interval.
TickHorizon == 2 * CacheTtl
TickNext ==
  \/ \E key \in Keys, fn \in Fns :
        cacheOps < MaxTickOps /\ CacheSetupAutoRefresh(key, fn)
  \/ \E t \in timers : TimerTick(t)
  \/ \E i \in DOMAIN refreshing, data \in Data : RefreshReturn(i, data)
  \/ \E i \in DOMAIN refreshing, e \in Errors : RefreshThrow(i, e)
  \/ AdvanceTimeTo(TickHorizon)
TickSpec == Init /\ [][TickNext]_vars

\* A manual write racing a refresh: setupAutoRefresh is the first call,
\* forceRefresh the second, and set(key, d1) the third, made while a
\* refresh of key is running.
RaceSetData == "d1"
RaceNext ==
  \/ \E key \in Keys, fn \in Fns :
        cacheOps = 0 /\ CacheSetupAutoRefresh(key, fn)
  \/ \E key \in Keys :
        cacheOps = 1 /\ CacheForceRefresh(key)
  \/ \E key \in Keys :
        /\ cacheOps = 2
        /\ \E i \in DOMAIN refreshing : refreshing[i].key = key
        /\ CacheSet(key, RaceSetData)
  \/ \E t \in timers : TimerTick(t)
  \/ \E i \in DOMAIN refreshing, data \in Data : RefreshReturn(i, data)
  \/ AdvanceTime
RaceSpec == Init /\ [][RaceNext]_vars

\* ---- the routes that read the cache: actions --------------------------------
\* routes without its h-th element: the handler has responded.
RemoveRoute(rs, h) == SubSeq(rs, 1, h - 1) \o SubSeq(rs, h + 1, Len(rs))

\* cache.set(products, data); cache.set(filters, extractFilterOptions(data))
\* and, under refresh, the same in the order the refresh function and its
\* caller make the two writes.
StoreProducts(c, data, t) ==
  SetEntry(SetEntry(c, Products, data, t), Filters, ExtractFilterOptions(data), t)
RefreshProducts(c, data, t) ==
  RefreshStore(SetEntry(c, Filters, ExtractFilterOptions(data), t), Products, data, t)
WroteProducts(lw, data, t, by) ==
  [lw EXCEPT ![Products] = Written(data, t, by),
             ![Filters] = Written(ExtractFilterOptions(data), t, by)]

\* initializeCache() up to await getProductsFromSheet()
InitializeCacheBegin ==
  /\ boot = "idle"
  /\ boot' = "fetching"
  /\ UNCHANGED <<routes, response, stock, sold>>
  /\ UNCHANGED <<queueVars, cacheVars>>

\* initializeCache(): the fetch returns data; the two entries are written
\* and the refresh function is registered.
InitializeCacheFetched(data) ==
  /\ boot = "fetching"
  /\ boot' = "done"
  /\ InstallCache(SetupAutoRefresh(
        [CacheWorld EXCEPT !.cache = StoreProducts(cache, data, now)],
        Products, ProductsRefresher, now))
  /\ lastWrite' = WroteProducts(lastWrite, data, now, "set")
  /\ last' = [op |-> "setupAutoRefresh", key |-> Products, out |-> NoOut]
  /\ UNCHANGED <<refreshing, now, cacheOps>>
  /\ UNCHANGED <<routes, response, stock, sold>>
  /\ UNCHANGED queueVars

\* initializeCache(): the fetch throws; the error is logged.
InitializeCacheFailed ==
  /\ boot = "fetching"
  /\ boot' = "done"
  /\ UNCHANGED <<routes, response, stock, sold>>
  /\ UNCHANGED <<queueVars, cacheVars>>

\* GET /api/products up to its response or to await getProductsFromSheet()
GetProducts ==
  /\ IF Cached(cache, Products, now)
       THEN /\ response' = Respond(Products, TRUE, Get(cache, Products, now).data, "cache")
            /\ routes' = routes
       ELSE /\ Len(routes) < MaxPending
            /\ routes' = Append(routes, [route |-> Products, pc |-> "fetching"])
            /\ response' = response
  /\ UNCHANGED <<boot, stock, sold>>
  /\ UNCHANGED <<queueVars, cacheVars>>

\* GET /api/products: the fetch returns data; the entries are written and
\* the data is the response.
GetProductsFetched(h, data) ==
  /\ h \in DOMAIN routes
  /\ routes[h].route = Products
  /\ cache' = StoreProducts(cache, data, now)
  /\ lastWrite' = WroteProducts(lastWrite, data, now, "set")
  /\ last' = [op |-> "set", key |-> Filters, out |-> NoOut]
  /\ response' = Respond(Products, TRUE, data, "fetch")
  /\ routes' = RemoveRoute(routes, h)
  /\ UNCHANGED <<refreshCallbacks, refreshIntervals, timers, refreshing, now, cacheOps>>
  /\ UNCHANGED <<boot, stock, sold>>
  /\ UNCHANGED queueVars

\* GET /api/products: the fetch throws; catch (error) answers with the
\* entry if there is one by now, else with the error.
GetProductsFailed(h) ==
  /\ h \in DOMAIN routes
  /\ routes[h].route = Products
  /\ response' = IF Cached(cache, Products, now)
                   THEN Respond(Products, TRUE, Get(cache, Products, now).data, "stale")
                   ELSE Respond(Products, FALSE, "-", "error")
  /\ routes' = RemoveRoute(routes, h)
  /\ UNCHANGED <<boot, stock, sold>>
  /\ UNCHANGED <<queueVars, cacheVars>>

\* POST /api/refresh up to await cache.forceRefresh(products): with no
\* refresh function forceRefresh returns null, products is null, and the
\* handler answers at once; else the refresh function is called.
PostRefresh ==
  /\ IF HasRefresher(refreshCallbacks, Products)
       THEN /\ Len(refreshing) < MaxInflight
            /\ refreshing' = Append(refreshing,
                  [key |-> Products, fn |-> refreshCallbacks[Products], by |-> "force", at |-> now])
            /\ last' = [op |-> "forceRefresh", key |-> Products, out |-> NoOut]
            /\ response' = response
       ELSE /\ refreshing' = refreshing
            /\ last' = [op |-> "forceRefresh", key |-> Products, out |-> NullOut]
            /\ response' = Respond("refresh", TRUE, "null", "refresh")
  /\ UNCHANGED <<cache, refreshCallbacks, refreshIntervals, timers, now, cacheOps, lastWrite>>
  /\ UNCHANGED <<boot, routes, stock, sold>>
  /\ UNCHANGED queueVars

\* The i-th running call of the products refresh function returns data:
\* the function has stored the filters, its caller stores the products;
\* POST /api/refresh, if that is the caller, stores the filters again and
\* answers with success.
ProductsRefreshReturn(i, data) ==
  /\ i \in DOMAIN refreshing
  /\ refreshing[i].fn = ProductsRefresher
  /\ cache' = RefreshProducts(cache, data, now)
  /\ lastWrite' = WroteProducts(lastWrite, data, now, refreshing[i].by)
  /\ IF refreshing[i].by = "timer"
       THEN /\ last' = [op |-> "tickReturn", key |-> Products, out |-> NoOut]
            /\ response' = response
       ELSE /\ last' = [op |-> "forceReturn", key |-> Products, out |-> DataOut(data)]
            /\ response' = Respond("refresh", TRUE, data, "refresh")
  /\ refreshing' = RemoveRefresh(refreshing, i)
  /\ UNCHANGED <<refreshCallbacks, refreshIntervals, timers, now, cacheOps>>
  /\ UNCHANGED <<boot, routes, stock, sold>>
  /\ UNCHANGED queueVars

\* The i-th running call of the products refresh function throws e: the
\* interval callback logs it; forceRefresh throws it and POST /api/refresh
\* answers with the error.
ProductsRefreshThrow(i, e) ==
  /\ i \in DOMAIN refreshing
  /\ refreshing[i].fn = ProductsRefresher
  /\ LET r == refreshing[i]
         c == IF r.by = "timer" THEN TimerCatch(CacheWorld, r.key, e)
                                ELSE ForceCatch(CacheWorld, r.key, e)
     IN /\ InstallCache(c.cw)
        /\ last' = [op |-> IF r.by = "timer" THEN "tickThrow" ELSE "forceThrow",
                    key |-> r.key, out |-> c.out]
        /\ response' = IF r.by = "timer" THEN response
                        ELSE IF c.out.kind = "error"
                               THEN Respond("refresh", FALSE, "-", "error")
                               ELSE Respond("refresh", TRUE, "null", "refresh")
  /\ refreshing' = RemoveRefresh(refreshing, i)
  /\ UNCHANGED <<now, cacheOps, lastWrite>>
  /\ UNCHANGED <<boot, routes, stock, sold>>
  /\ UNCHANGED queueVars

ServerNext ==
  \/ InitializeCacheBegin
  \/ \E data \in Data : InitializeCacheFetched(data)
  \/ InitializeCacheFailed
  \/ GetProducts
  \/ \E h \in DOMAIN routes, data \in Data : GetProductsFetched(h, data)
  \/ \E h \in DOMAIN routes : GetProductsFailed(h)
  \/ PostRefresh
  \/ \E t \in timers : TimerTick(t)
  \/ \E i \in DOMAIN refreshing, data \in Data : ProductsRefreshReturn(i, data)
  \/ \E i \in DOMAIN refreshing, e \in Errors : ProductsRefreshThrow(i, e)
  \/ AdvanceTime
ServerSpec == Init /\ [][ServerNext]_vars

\* ---- POST /api/orders: actions ------------------------------------------------
\* [orderRow]: the one row the handler appends for an order.
OrderRows == << <<"order">> >>

\* newStock < 0 ? 0 : newStock
Clamp(newStock) == IF newStock < 0 THEN 0 ELSE newStock

\* POST /api/orders, for an order of quantity of the product, up to
\* await appendToSheet(GOOGLE_SHEET_ID, ORDERS_SHEET_NAME, [orderRow], true),
\* which is queueOrderWrite.
PostOrder(quantity) ==
  /\ Len(tasks) < MaxOrders
  /\ InstallQueue(Enqueued(World, Orders, OrderRows))
  /\ routes' = Append(routes, [route |-> "orders", pc |-> "saving",
                               task |-> Len(tasks) + 1, quantity |-> quantity,
                               newStock |-> 0])
  /\ UNCHANGED <<boot, response, stock, sold>>
  /\ UNCHANGED cacheVars

\* (mutant) the handler goes on however the promise was settled
OrderSavedEitherWay(h) ==
  /\ h \in DOMAIN routes
  /\ routes[h].route = "orders"
  /\ routes[h].pc = "saving"
  /\ tasks[routes[h].task].status # "pending"
  /\ routes' = [routes EXCEPT ![h].pc = "reading"]
  /\ UNCHANGED <<boot, response, stock, sold>>
  /\ UNCHANGED <<queueVars, cacheVars>>

\* The promise of the handler's task is resolved: the handler goes on to
\* await getProductsFromSheet().
OrderSaved(h) ==
  /\ h \in DOMAIN routes
  /\ routes[h].route = "orders"
  /\ routes[h].pc = "saving"
  /\ tasks[routes[h].task].status = "resolved"
  /\ routes' = [routes EXCEPT ![h].pc = "reading"]
  /\ UNCHANGED <<boot, response, stock, sold>>
  /\ UNCHANGED <<queueVars, cacheVars>>

\* The promise of the handler's task is rejected: catch (sheetError) throws
\* and the outer catch answers with the error.
OrderSaveFailed(h) ==
  /\ h \in DOMAIN routes
  /\ routes[h].route = "orders"
  /\ routes[h].pc = "saving"
  /\ tasks[routes[h].task].status = "rejected"
  /\ response' = Respond("orders", FALSE, "-", "error")
  /\ routes' = RemoveRoute(routes, h)
  /\ UNCHANGED <<boot, stock, sold>>
  /\ UNCHANGED <<queueVars, cacheVars>>

\* getProductsFromSheet() returns the products as the sheet has them now:
\* the handler computes the new stock and calls updateStockCounts, which
\* awaits fetchSheetData to find the row of the product.
OrderProductsFetched(h) ==
  /\ h \in DOMAIN routes
  /\ routes[h].route = "orders"
  /\ routes[h].pc = "reading"
  /\ routes' = [routes EXCEPT ![h].pc = "locating",
                              ![h].newStock = Clamp(stock - routes[h].quantity)]
  /\ UNCHANGED <<boot, response, stock, sold>>
  /\ UNCHANGED <<queueVars, cacheVars>>

\* updateStockCounts: fetchSheetData returns; batchUpdate is issued.
StockRowsFetched(h) ==
  /\ h \in DOMAIN routes
  /\ routes[h].route = "orders"
  /\ routes[h].pc = "locating"
  /\ routes' = [routes EXCEPT ![h].pc = "updating"]
  /\ UNCHANGED <<boot, response, stock, sold>>
  /\ UNCHANGED <<queueVars, cacheVars>>

\* updateStockCounts: batchUpdate has written the stock cell and returns;
\* the handler tracks the order and answers with success.
StockUpdated(h) ==
  /\ h \in DOMAIN routes
  /\ routes[h].route = "orders"
  /\ routes[h].pc = "updating"
  /\ stock' = routes[h].newStock
  /\ sold' = sold + routes[h].quantity
  /\ response' = Respond("orders", TRUE, "order", "saved")
  /\ routes' = RemoveRoute(routes, h)
  /\ UNCHANGED boot
  /\ UNCHANGED <<queueVars, cacheVars>>

\* One of the three calls to the products sheet throws, nothing written:
\* catch (sheetError) throws and the outer catch answers with the error.
StockFailed(h) ==
  /\ h \in DOMAIN routes
  /\ routes[h].route = "orders"
  /\ routes[h].pc \in {"reading", "locating", "updating"}
  /\ response' = Respond("orders", FALSE, "-", "error")
  /\ routes' = RemoveRoute(routes, h)
  /\ UNCHANGED <<boot, stock, sold>>
  /\ UNCHANGED <<queueVars, cacheVars>>

OrderNext ==
  \/ \E quantity \in Quantities : PostOrder(quantity)
  \/ \E d \in DOMAIN drains : AppendOk(d)
  \/ \E d \in DOMAIN drains : AppendFail(d)
  \/ \E d \in DOMAIN drains : BackoffFire(d)
  \/ \E d \in DOMAIN drains : PauseFire(d)
  \/ \E h \in DOMAIN routes : OrderSaved(h)
  \/ \E h \in DOMAIN routes : OrderSaveFailed(h)
  \/ \E h \in DOMAIN routes : OrderProductsFetched(h)
  \/ \E h \in DOMAIN routes : StockRowsFetched(h)
  \/ \E h \in DOMAIN routes : StockUpdated(h)
  \/ \E h \in DOMAIN routes : StockFailed(h)
OrderSpec == Init /\ [][OrderNext]_vars

\* ---- appendToSheet: actions ---------------------------------------------------
\* The rows of the tables ts, counted.
RECURSIVE RowsIn(_, _)
RowsIn(r, ts) ==
  IF ts = {} THEN 0
  ELSE LET t == CHOOSE x \in ts : TRUE
       IN Len(r[t]) + RowsIn(r, ts \ {t})

\* appendToSheet(sheetId, sheetName, rows, useQueue) up to its first await:
\* the call is handed to queueOrderWrite, or the append is issued and the
\* caller waits for it.
AppendToSheet(table, rows, useQueue) ==
  IF UsesQueue(table.sheetName, useQueue)
    THEN /\ Len(tasks) < MaxRouteEnq
         /\ Install(Enqueued(World, table, rows))
    ELSE /\ Len(routes) < MaxDirect
         /\ RowsIn(remote, AllTables) < MaxDirectRows
         /\ routes' = Append(routes, [route |-> "append", pc |-> "appending",
                                      table |-> table, rows |-> rows,
                                      useQueue |-> useQueue])
         /\ UNCHANGED <<boot, response, stock, sold>>
         /\ UNCHANGED <<queueVars, cacheVars>>

\* The append of the direct call h returns: the rows are in the table and
\* appendToSheet returns true.
DirectAppendOk(h) ==
  /\ h \in DOMAIN routes
  /\ routes[h].route = "append"
  /\ remote' = [remote EXCEPT ![routes[h].table] = @ \o routes[h].rows]
  /\ response' = Respond("append", TRUE, "true", "direct")
  /\ routes' = RemoveRoute(routes, h)
  /\ UNCHANGED <<orderWriteQueue, orderWriteActive, tasks, drains, appendCalls,
                 batches, settles>>
  /\ UNCHANGED <<boot, stock, sold>>
  /\ UNCHANGED cacheVars

\* The append of the direct call h throws, nothing written: catch (error)
\* logs it and throws it to the caller.
DirectAppendFail(h) ==
  /\ h \in DOMAIN routes
  /\ routes[h].route = "append"
  /\ response' = Respond("append", FALSE, "-", "error")
  /\ routes' = RemoveRoute(routes, h)
  /\ UNCHANGED <<boot, stock, sold>>
  /\ UNCHANGED <<queueVars, cacheVars>>

\* The tables the calls are made for where the two paths run side by side.
RouteTables == { UpperOrders, Purchases }
RouteNext ==
  \/ \E table \in RouteTables, useQueue \in BOOLEAN :
        AppendToSheet(table, ScenarioRowsA, useQueue)
  \/ \E h \in DOMAIN routes : DirectAppendOk(h)
  \/ \E h \in DOMAIN routes : DirectAppendFail(h)
  \/ \E d \in DOMAIN drains : AppendOk(d)
  \/ \E d \in DOMAIN drains : AppendFail(d)
  \/ \E d \in DOMAIN drains : BackoffFire(d)
  \/ \E d \in DOMAIN drains : PauseFire(d)
RouteSpec == Init /\ [][RouteNext]_vars

\* ---- vocabulary of the properties -----------------------------------------
Settled(i) == tasks[i].status # "pending"
SettledCount == Cardinality({i \in DOMAIN tasks : Settled(i)})
InFlightAppends == Cardinality({d \in DOMAIN drains : drains[d].pc = "appending"})
BatchTasks(dr) == Range(dr.batch)

\* ---- C1 -------------------------------------------------------------------
\* C1: under fair scheduling (appends return or throw, timers fire) every
\* enqueued task is eventually settled, so the number of settled promises
\* eventually equals, and stays equal to, the number of enqueue calls.
C1_Liveness == <>[](SettledCount = Len(tasks))

\* Three tasks were enqueued and all are settled, some resolved and some
\* rejected: the append succeeded for one batch and failed for another.
C1_Witness ==
  /\ Len(tasks) >= 3
  /\ SettledCount = Len(tasks)
  /\ \E i, j \in DOMAIN tasks : tasks[i].status = "resolved" /\ tasks[j].status = "rejected"

\* ---- C2 -------------------------------------------------------------------
\* C2: no task has resolve or reject invoked more than once in total, so none
\* is both resolved and rejected; a task is in the pending list until it is
\* claimed, and it is claimed into exactly one batch.
C2_ExactlyOnce ==
  /\ \A i \in DOMAIN tasks :
        /\ tasks[i].resolves + tasks[i].rejects <= 1
        /\ Settled(i) <=> (tasks[i].resolves + tasks[i].rejects = 1)
        /\ (tasks[i].status = "resolved") <=> (tasks[i].resolves = 1)
        /\ (tasks[i].status = "rejected") <=> (tasks[i].rejects = 1)
        /\ tasks[i].claimed = (IF i \in Range(orderWriteQueue) THEN 0 ELSE 1)
        /\ Settled(i) => tasks[i].claimed = 1
  /\ \A p, q \in DOMAIN orderWriteQueue :
        p # q => orderWriteQueue[p] # orderWriteQueue[q]
  /\ \A i \in DOMAIN tasks :
        (~Settled(i) /\ tasks[i].claimed = 1) =>
           Cardinality({d \in DOMAIN drains : i \in BatchTasks(drains[d])}) = 1

\* A batch of two was resolved and a later batch of one was rejected.
C2_Witness ==
  \E i, j, k \in DOMAIN tasks :
     /\ i # j /\ tasks[i].batchNo = tasks[j].batchNo
     /\ tasks[i].resolves = 1 /\ tasks[j].resolves = 1
     /\ tasks[k].rejects = 1

\* ---- C3 -------------------------------------------------------------------
\* C3: at most one drain loop is past the orderWriteActive guard at any time
\* (and the flag is set exactly while one is), so at most one append issued
\* by the queue is in flight.
C3_MutualExclusion ==
  /\ Len(drains) <= 1
  /\ orderWriteActive <=> (Len(drains) = 1)
  /\ InFlightAppends <= 1

\* An append is in flight while tasks that arrived during it wait in the
\* pending list: their queueOrderWrite calls returned at the guard.
C3_Witness ==
  /\ InFlightAppends = 1
  /\ Len(orderWriteQueue) >= 2
  /\ orderWriteActive

\* ---- C4 -------------------------------------------------------------------
\* C4: a batch never gets a fourth append attempt; its tasks stay pending
\* until the batch is decided; and when the append has failed three times in
\* a row exactly three attempts were made and every task of the batch is
\* rejected with the error of the third, the last, call.
C4_RetryExhaustion ==
  \A d \in DOMAIN drains :
     LET dr == drains[d] IN
       /\ dr.callsMade <= MaxAttempts
       /\ dr.attempts <= MaxAttempts
       /\ dr.pc \in {"appending", "backoff"} =>
            \A i \in BatchTasks(dr) : ~Settled(i)
       /\ (dr.attempts = MaxAttempts) =>
            /\ dr.pc = "pause"
            /\ dr.callsMade = 3
            /\ ~dr.success
            /\ \A i \in BatchTasks(dr) :
                  /\ tasks[i].status = "rejected"
                  /\ tasks[i].value = ErrorOf(dr.call)
                  /\ tasks[i].resolves = 0

\* A batch of two tasks has failed three times and both were rejected.
C4_Witness ==
  \E d \in DOMAIN drains :
     /\ drains[d].attempts = 3
     /\ Len(drains[d].batch) = 2
     /\ \A i \in BatchTasks(drains[d]) : tasks[i].status = "rejected"

\* ---- C5 -------------------------------------------------------------------
\* C5: when the append for a batch first succeeds on attempt k (after k - 1
\* failures), every task of the batch is resolved with true and none is
\* rejected, exactly k attempts were made, and the drain is at the pause:
\* no further append is issued for the batch.
C5_SuccessResolution ==
  \A d \in DOMAIN drains :
     LET dr == drains[d] IN
       dr.success =>
         /\ dr.pc = "pause"
         /\ dr.attempts \in 0..2
         /\ dr.callsMade = dr.attempts + 1
         /\ \A i \in BatchTasks(dr) :
               /\ tasks[i].status = "resolved"
               /\ tasks[i].value = TrueValue
               /\ tasks[i].rejects = 0

\* A batch of two succeeded on its second attempt.
C5_Witness ==
  \E d \in DOMAIN drains :
     /\ drains[d].success
     /\ drains[d].attempts = 1
     /\ drains[d].callsMade = 2
     /\ Len(drains[d].batch) = 2


\* ---- C6 -------------------------------------------------------------------
\* The rows of tasks lo..hi, task by task in arrival order.
RECURSIVE TaskRowsFromTo(_, _)
TaskRowsFromTo(lo, hi) ==
  IF lo > hi THEN <<>> ELSE tasks[lo].rows \o TaskRowsFromTo(lo + 1, hi)

FirstThreeEarly ==
  /\ Len(tasks) >= 3
  /\ \A i \in 1..3 : tasks[i].early

\* C6 as stated: when A, B and C are enqueued back to back on a fresh queue
\* (before any append has completed), every append call carries A's rows,
\* then B's, then C's.
C6_Original ==
  FirstThreeEarly =>
    \A d \in DOMAIN drains :
       drains[d].callsMade >= 1 => drains[d].sentRows = TaskRowsFromTo(1, 3)

\* C6 amended: the tasks that are pending when a drain pass claims its batch
\* (those enqueued since the previous claim) form the batch in arrival
\* order, and the single append call of the pass carries their rows task by
\* task in that order; the first task ever enqueued finds the queue idle,
\* starts the drain itself and is claimed alone.
C6_BatchOrder ==
  \A d \in DOMAIN drains :
     LET dr      == drains[d]
         members == {i \in DOMAIN tasks : tasks[i].seenBatches = dr.batchNo - 1}
         lo      == dr.batch[1]
         hi      == dr.batch[Len(dr.batch)]
     IN /\ Len(dr.batch) >= 1
        /\ Range(dr.batch) = members
        /\ \A k \in DOMAIN dr.batch : dr.batch[k] = lo + k - 1
        /\ dr.allRows = TaskRowsFromTo(lo, hi)
        /\ dr.callsMade >= 1 => dr.sentRows = TaskRowsFromTo(lo, hi)
        /\ dr.batchNo = 1 => dr.batch = <<1>>

\* A, B and C were pending together, one of them with two rows, and their
\* merged append is in flight.
C6_Witness ==
  \E d \in DOMAIN drains :
     /\ drains[d].pc = "appending"
     /\ Len(drains[d].batch) = 3
     /\ Len(drains[d].sentRows) = 4

\* ---- C7 -------------------------------------------------------------------
TwoQuickEnqueues ==
  /\ Len(tasks) = 2
  /\ tasks[1].rows = ScenarioRowsA
  /\ tasks[2].rows = ScenarioRowsB
  /\ tasks[2].early

RECURSIVE RowsOfTasks(_)
RowsOfTasks(ids) ==
  IF ids = <<>> THEN <<>> ELSE tasks[Head(ids)].rows \o RowsOfTasks(Tail(ids))

\* C8: a task enqueued after a batch was claimed (during an attempt, a
\* backoff wait or the pause of that batch) is not in that batch; every
\* attempt of the batch sends the rows of its own tasks, the same rows as
\* the first attempt; and a task is serviced by a batch claimed after its
\* arrival.
C8_BatchClosure ==
  /\ \A d \in DOMAIN drains :
        LET dr == drains[d] IN
          /\ \A i \in DOMAIN tasks :
                tasks[i].seenBatches >= dr.batchNo => i \notin BatchTasks(dr)
          /\ dr.callsMade >= 1 =>
                /\ dr.sentRows = dr.firstRows
                /\ dr.firstRows = RowsOfTasks(dr.batch)
  /\ \A i \in DOMAIN tasks :
        tasks[i].batchNo # 0 => tasks[i].batchNo > tasks[i].seenBatches

\* A retry is in flight while a task that arrived during the batch waits.
C8_Witness ==
  \E d \in DOMAIN drains :
     /\ drains[d].pc = "appending"
     /\ drains[d].callsMade >= 2
     /\ \E p \in DOMAIN orderWriteQueue :
           tasks[orderWriteQueue[p]].seenBatches = drains[d].batchNo

\* ---- C9 -------------------------------------------------------------------
\* C9: tasks are settled in the order they were enqueued; the tasks of one
\* batch are settled together, with the same outcome; and a task enqueued
\* after a batch was claimed is settled after every task of that batch.
C9_SettlementOrder ==
  \A i, j \in DOMAIN tasks :
     /\ (i < j /\ Settled(j)) =>
           (Settled(i) /\ tasks[i].settledAt < tasks[j].settledAt)
     /\ (tasks[i].batchNo # 0 /\ tasks[i].batchNo = tasks[j].batchNo) =>
           /\ tasks[i].status = tasks[j].status
           /\ tasks[i].value = tasks[j].value
     /\ (tasks[i].batchNo # 0 /\ tasks[j].seenBatches >= tasks[i].batchNo
            /\ Settled(j)) =>
           (Settled(i) /\ tasks[i].settledAt < tasks[j].settledAt)

\* A batch of one and a later batch of two are all settled.
C9_Witness ==
  \E i, j, k \in DOMAIN tasks :
     /\ i < j /\ j < k
     /\ tasks[i].batchNo < tasks[j].batchNo
     /\ tasks[j].batchNo = tasks[k].batchNo
     /\ Settled(i) /\ Settled(j) /\ Settled(k)

\* ---- C10 ------------------------------------------------------------------
\* The rows of the resolved tasks among i..Len(tasks), in enqueue order.
RECURSIVE ResolvedRowsFrom(_)
ResolvedRowsFrom(i) ==
  IF i > Len(tasks) THEN <<>>
  ELSE (IF tasks[i].status = "resolved" THEN tasks[i].rows ELSE <<>>)
         \o ResolvedRowsFrom(i + 1)

\* C10: with a remote table on which a failed append writes nothing, the
\* table holds exactly the rows of the resolved tasks, task by task in
\* enqueue order, and no other table is written.
C10_SubmissionOrder ==
  /\ remote[Orders] = ResolvedRowsFrom(1)
  /\ \A t \in Tables \ {Orders} : remote[t] = <<>>

\* Two resolved tasks with a rejected one between them, one with two rows.
C10_Witness ==
  /\ Len(remote[Orders]) >= 3
  /\ \E i, j, k \in DOMAIN tasks :
        /\ i < j /\ j < k
        /\ tasks[i].status = "resolved"
        /\ tasks[j].status = "rejected"
        /\ tasks[k].status = "resolved"

\* ---- vocabulary of the claims about what reaches the table ---------------
TaskTable(i) == [sheetId |-> tasks[i].sheetId, sheetName |-> tasks[i].sheetName]

\* rows, n times over
RECURSIVE Repeat(_, _)
Repeat(rows, n) == IF n = 0 THEN <<>> ELSE rows \o Repeat(rows, n - 1)

\* The number of rows table t holds if every write of a task's rows went to
\* the table the task names: tasks 1..i counted.
RECURSIVE RowsOwedTo(_, _)
RowsOwedTo(t, i) ==
  IF i = 0 THEN 0
  ELSE RowsOwedTo(t, i - 1) +
       (IF TaskTable(i) = t THEN tasks[i].written * Len(tasks[i].rows) ELSE 0)

\* What has been added to the table of drain dr since dr claimed its batch.
AddedSinceClaim(dr) ==
  SubSeq(remote[dr.table], dr.base + 1, Len(remote[dr.table]))

\* ---- C11 ------------------------------------------------------------------
\* C11 as stated: whenever a task is rejected, none of its rows is in the
\* table, that is, no append of its batch put them there.
C11_Original ==
  \A i \in DOMAIN tasks : tasks[i].status = "rejected" => tasks[i].written = 0

\* C11: a rejected task's rows are in the table once for every attempt of
\* its batch that wrote them and then threw, at most three times, and are
\* absent only if no attempt did; the table holds exactly the rows written.
C11_RejectedRows ==
  /\ \A i \in DOMAIN tasks :
        tasks[i].status = "rejected" =>
           /\ tasks[i].written = tasks[i].lost
           /\ tasks[i].written <= MaxAttempts
  /\ \A t \in Tables : Len(remote[t]) = RowsOwedTo(t, Len(tasks))

\* Two tasks were rejected: the rows of one are not in the table, the rows
\* of the other are there twice.
C11_Witness ==
  \E i, j \in DOMAIN tasks :
     /\ tasks[i].status = "rejected" /\ tasks[i].written = 0
     /\ tasks[j].status = "rejected" /\ tasks[j].written = 2
     /\ remote[Orders] = Repeat(tasks[j].rows, 2)

\* ---- C12 ------------------------------------------------------------------
\* C12: a resolved task's rows were appended at least once, and once more
\* for every attempt of its batch that wrote them and then threw; a retry
\* sends the rows the first attempt sent, so that what a batch has added to
\* its table is its rows, once per attempt that took effect.
C12_AtLeastOnce ==
  /\ \A i \in DOMAIN tasks :
        tasks[i].status = "resolved" =>
           /\ tasks[i].written >= 1
           /\ tasks[i].written = tasks[i].lost + 1
  /\ \A d \in DOMAIN drains :
        drains[d].callsMade >= 1 =>
           /\ drains[d].sentRows = drains[d].firstRows
           /\ AddedSinceClaim(drains[d]) = Repeat(drains[d].firstRows, drains[d].writes)

\* One task, resolved on the retry after an attempt that wrote and threw:
\* its rows are in the table twice.
C12_Witness ==
  /\ Len(tasks) = 1
  /\ tasks[1].status = "resolved"
  /\ tasks[1].lost = 1
  /\ remote[Orders] = tasks[1].rows \o tasks[1].rows

\* ---- C13 ------------------------------------------------------------------
\* C13 as stated: every batch holds only tasks that name the table the batch
\* is appended to, and so every table holds only rows of tasks that name it.
C13_SameTable ==
  /\ \A d \in DOMAIN drains :
        \A i \in BatchTasks(drains[d]) : TaskTable(i) = drains[d].table
  /\ \A t \in Tables : Len(remote[t]) = RowsOwedTo(t, Len(tasks))

\* ---- vocabulary of the claims about the cache ------------------------------
\* The intervals of key k that the runtime holds.
ActiveTimers(k) == {t \in timers : t.key = k}
\* The running refresh functions the interval callback / forceRefresh called.
TimerRefreshes == {i \in DOMAIN refreshing : refreshing[i].by = "timer"}
ForceRefreshes == {i \in DOMAIN refreshing : refreshing[i].by = "force"}

C16_TimerRefreshFailure ==
  [][\A i \in DOMAIN refreshing : \A e \in Errors :
        (refreshing[i].by = "timer" /\ RefreshThrow(i, e)) =>
           /\ cache' = cache
           /\ refreshIntervals' = refreshIntervals
           /\ timers' = timers
           /\ refreshCallbacks' = refreshCallbacks
           /\ last'.out = LoggedOut(e)]_vars

\* A refresh called by the interval of a key that holds an entry has just
\* thrown: the entry is there and the interval is registered and running.
C16_Witness ==
  /\ last.op = "tickThrow"
  /\ last.out.kind = "logged"
  /\ cache[last.key].present
  /\ refreshIntervals[last.key] # NoTimer
  /\ ActiveTimers(last.key) # {}

\* ---- C17 ------------------------------------------------------------------
\* C17: the step in which a refresh called by forceRefresh(k) throws e ends
\* forceRefresh with e thrown, and leaves every entry as it was.
C17_ForceRefreshFailure ==
  [][\A i \in DOMAIN refreshing : \A e \in Errors :
        (refreshing[i].by = "force" /\ RefreshThrow(i, e)) =>
           /\ last'.op = "forceThrow"
           /\ last'.key = refreshing[i].key
           /\ last'.out = ThrownOut(e)
           /\ cache' = cache]_vars

\* forceRefresh of a key that holds an entry has just thrown e2.
C17_Witness ==
  /\ last.op = "forceThrow"
  /\ last.out = ThrownOut("e2")
  /\ cache[last.key].present

\* ---- C18 ------------------------------------------------------------------
\* C18: forceRefresh(k) with no refresh function registered for k returns
\* null, throws nothing, calls nothing, and leaves the entries, the
\* intervals and the registered functions as they were.
C18_ForceRefreshUnregistered ==
  [][\A k \in Keys :
        (refreshCallbacks[k] = NoFn /\ CacheForceRefresh(k)) =>
           /\ last'.out = NullOut
           /\ cache' = cache
           /\ refreshIntervals' = refreshIntervals
           /\ timers' = timers
           /\ refreshCallbacks' = refreshCallbacks
           /\ refreshing' = refreshing]_vars

\* forceRefresh of a key that holds an entry and has no refresh function
\* has just returned null, the other key having a function and an interval.
C18_Witness ==
  /\ last.op = "forceRefresh"
  /\ last.out = NullOut
  /\ cache[last.key].present
  /\ \E j \in Keys : refreshCallbacks[j] # NoFn /\ refreshIntervals[j] # NoTimer

\* ---- C19 ------------------------------------------------------------------
\* C19: a key has at most one running interval, the one refreshIntervals
\* names, and that interval calls the function last given to
\* setupAutoRefresh for the key.
C19_SingleTimer ==
  /\ \A k \in Keys : Cardinality(ActiveTimers(k)) <= 1
  /\ \A t \in timers :
        /\ refreshIntervals[t.key] = t.id
        /\ t.fn = refreshCallbacks[t.key]
  /\ \A k \in Keys :
        refreshIntervals[k] # NoTimer => \E t \in timers : t.id = refreshIntervals[k]

\* setupAutoRefresh(k, f2) has just replaced the interval of f1, which had
\* fired (f1 is still running): the one interval of k calls f2.
C19_Witness ==
  /\ last.op = "setupAutoRefresh"
  /\ \E i \in TimerRefreshes :
        /\ refreshing[i].key = last.key
        /\ refreshing[i].fn = "f1"
  /\ refreshCallbacks[last.key] = "f2"
  /\ \E t \in timers : ActiveTimers(last.key) = {t} /\ t.fn = "f2"

\* ---- C20 ------------------------------------------------------------------
\* C20: getStats() reports as keys the keys that hold an entry, as
\* totalEntries their number, and as autoRefreshKeys the keys with a running
\* interval, entry or not.
C20_Stats ==
  LET stats == GetStats(CacheWorld)
  IN /\ stats.keys = {k \in Keys : lastWrite[k].live}
     /\ stats.totalEntries = Cardinality({k \in Keys : lastWrite[k].live})
     /\ stats.autoRefreshKeys = {k \in Keys : ActiveTimers(k) # {}}

\* One key holds an entry and a refresh function but no interval (it was
\* stopped); the other has a running interval and no entry.
C20_Witness ==
  \E k, j \in Keys :
     /\ cache[k].present /\ ActiveTimers(k) = {} /\ refreshCallbacks[k] # NoFn
     /\ ~cache[j].present /\ ActiveTimers(j) # {}
     /\ GetStats(CacheWorld) =
           [keys |-> {k}, totalEntries |-> 1, autoRefreshKeys |-> {j}]

\* ---- C21 ------------------------------------------------------------------
\* C21: the step of delete(k) ends with no entry and no interval for k and
\* with the entry and the interval of every other key as they were; the step
\* of clear() ends with no entry and no interval at all, so that getStats()
\* reports nothing and no interval is left to fire.
C21_DeleteClear ==
  [][/\ \A k \in Keys :
          CacheDelete(k) =>
             /\ ~cache'[k].present
             /\ refreshIntervals'[k] = NoTimer
             /\ {t \in timers' : t.key = k} = {}
             /\ \A j \in Keys \ {k} :
                   /\ cache'[j] = cache[j]
                   /\ refreshIntervals'[j] = refreshIntervals[j]
                   /\ {t \in timers' : t.key = j} = ActiveTimers(j)
     /\ CacheClear =>
          /\ \A k \in Keys : ~cache'[k].present
          /\ timers' = {}
          /\ GetStats([cache |-> cache', callbacks |-> refreshCallbacks',
                       intervals |-> refreshIntervals', timers |-> timers']) =
                [keys |-> {}, totalEntries |-> 0, autoRefreshKeys |-> {}]]_vars

\* delete(k) has just run on a key whose interval had fired (its refresh is
\* still running): k has no entry and no interval, and the other key has
\* its entry and its running interval.
C21_Witness ==
  /\ last.op = "delete"
  /\ \E i \in TimerRefreshes : refreshing[i].key = last.key
  /\ ~cache[last.key].present
  /\ ActiveTimers(last.key) = {}
  /\ \E j \in Keys \ {last.key} : cache[j].present /\ ActiveTimers(j) # {}

\* ---- C22 ------------------------------------------------------------------
\* C22: the step of stopAutoRefresh(k) ends with no interval for k, with
\* every entry as it was and with the interval of every other key as it
\* was; if k had no interval the step changes none of the maps.
C22_StopFrame ==
  [][\A k \in Keys :
        CacheStopAutoRefresh(k) =>
           /\ refreshIntervals'[k] = NoTimer
           /\ {t \in timers' : t.key = k} = {}
           /\ cache' = cache
           /\ refreshCallbacks' = refreshCallbacks
           /\ \A j \in Keys \ {k} :
                 /\ refreshIntervals'[j] = refreshIntervals[j]
                 /\ {t \in timers' : t.key = j} = ActiveTimers(j)
           /\ refreshIntervals[k] = NoTimer =>
                 /\ timers' = timers
                 /\ refreshIntervals' = refreshIntervals]_vars

\* stopAutoRefresh(k) has just run on a key whose interval had refreshed
\* the entry: the entry is there, k has no interval, and the other key's
\* interval is running.
C22_Witness ==
  /\ last.op = "stopAutoRefresh"
  /\ cache[last.key].present
  /\ lastWrite[last.key].by = "timer"
  /\ ActiveTimers(last.key) = {}
  /\ \E j \in Keys \ {last.key} : ActiveTimers(j) # {}

\* ---- C23 ------------------------------------------------------------------
\* C23: the step of setupAutoRefresh(k, f) at time t0 calls nothing and
\* leaves an interval of f due at t0 + ttl; the interval fires only at
\* t0 + n * ttl (n >= 1), each time calling f and becoming due one ttl
\* later, and the clock never passes an interval that is due; the step in
\* which a call made by the interval returns data stores it with timestamp
\* now and expiresAt now + ttl.
C23_Schedule ==
  [][/\ \A k \in Keys, f \in Fns :
          CacheSetupAutoRefresh(k, f) =>
             /\ refreshing' = refreshing
             /\ cache' = cache
             /\ \E t \in timers' :
                   /\ t.key = k /\ t.fn = f
                   /\ t.since = now /\ t.due = now + CacheTtl
     /\ \A t \in timers :
          TimerTick(t) =>
             /\ now >= t.since + CacheTtl
             /\ (now - t.since) % CacheTtl = 0
             /\ refreshing' =
                   Append(refreshing, [key |-> t.key, fn |-> t.fn, by |-> "timer", at |-> now])
             /\ [t EXCEPT !.due = now + CacheTtl] \in timers'
     /\ now' # now => \A t \in timers : t.due >= now'
     /\ \A i \in DOMAIN refreshing, d \in Data :
          (refreshing[i].by = "timer" /\ RefreshReturn(i, d)) =>
             cache'[refreshing[i].key] =
                [present |-> TRUE, data |-> d,
                 timestamp |-> now, expiresAt |-> now + CacheTtl]]_vars

\* An interval set up at time 0 has fired at ttl and at 2 * ttl, and the
\* second call has returned at once: the entry is what it returned, with
\* timestamp 2 * ttl and expiry 3 * ttl, and the interval is due at 3 * ttl.
C23_Witness ==
  \E t \in timers :
     /\ t.since = 0
     /\ now = 2 * CacheTtl
     /\ t.due = 3 * CacheTtl
     /\ last.op = "tickReturn" /\ last.key = t.key
     /\ cache[t.key].present
     /\ cache[t.key].timestamp = 2 * CacheTtl
     /\ cache[t.key].expiresAt = 3 * CacheTtl

\* ---- C24 ------------------------------------------------------------------
\* C24: the step in which a refresh of k (called by the interval or by
\* forceRefresh) returns r leaves r as the entry of k, whatever set wrote
\* while the refresh was running; the step of set(k, v) leaves v; and no
\* other step changes an entry.  So the entry is what the last write wrote.
C24_LastWriteWins ==
  [][/\ \A i \in DOMAIN refreshing, r \in Data :
          RefreshReturn(i, r) =>
             /\ cache'[refreshing[i].key].data = r
             /\ cache'[refreshing[i].key].timestamp = now
             /\ \A j \in Keys \ {refreshing[i].key} : cache'[j] = cache[j]
     /\ \A k \in Keys :
          CacheSet(k, RaceSetData) =>
             /\ cache'[k].data = RaceSetData
             /\ \A j \in Keys \ {k} : cache'[j] = cache[j]
     /\ (cache' # cache) =>
          \/ \E i \in DOMAIN refreshing, r \in Data : RefreshReturn(i, r)
          \/ \E k \in Keys : CacheSet(k, RaceSetData)]_vars

\* All three calls were made, so set(k, d1) came after forceRefresh(k)
\* had called the refresh function, and that call has just returned d2:
\* the entry holds d2.
C24_Witness ==
  /\ cacheOps = 3
  /\ last.op = "forceReturn"
  /\ last.out = DataOut("d2")
  /\ lastWrite[last.key].by = "force"
  /\ cache[last.key].data = "d2"

\* ---- C29 ------------------------------------------------------------------
\* C29: between synchronous sections a non-empty pending list implies that
\* the flag is set; the flag is cleared only by the step that resumes from
\* the pause and finds the pending list empty; and under fair scheduling,
\* the enqueues being finitely many, the flag ends up cleared for good with
\* the pending list empty.
C29_Quiescence ==
  /\ [](Len(orderWriteQueue) > 0 => orderWriteActive)
  /\ [][(orderWriteActive /\ ~orderWriteActive') =>
           /\ orderWriteQueue = <<>>
           /\ orderWriteQueue' = <<>>
           /\ \E d \in DOMAIN drains : PauseFire(d)]_vars
  /\ <>[](~orderWriteActive /\ orderWriteQueue = <<>>)

\* Every enqueue was made, in more than one batch, and the queue is at
\* rest: nothing pending, no drain running, the flag cleared.
C29_Witness ==
  /\ Len(tasks) = MaxLiveEnq
  /\ batches >= 2
  /\ drains = <<>>
  /\ orderWriteQueue = <<>>
  /\ ~orderWriteActive

\* ---- C30 ------------------------------------------------------------------
\* C30: a drain waits for a retry only after a first or second failure, for
\* 1000 ms after the first and 2000 ms after the second; what a batch has
\* waited for retries in all is 0, 1000 or 3000 ms by the number of its
\* failures, nothing being added by a success or by the third failure.
C30_LinearBackoff ==
  \A d \in DOMAIN drains :
     LET dr == drains[d] IN
       /\ dr.pc = "backoff" =>
            /\ ~dr.success
            /\ dr.attempts \in {1, 2}
            /\ dr.delay = (IF dr.attempts = 1 THEN 1000 ELSE 2000)
       /\ dr.pc = "appending" => dr.delay = 0
       /\ dr.pc = "pause" => (dr.success \/ dr.attempts = 3)
       /\ dr.waited = (CASE dr.attempts = 0 -> 0
                         [] dr.attempts = 1 -> 1000
                         [] OTHER -> 3000)

\* A batch succeeded on its third attempt: it waited 1000 + 2000 ms for its
\* retries and is at the pause.
C30_Witness ==
  \E d \in DOMAIN drains :
     /\ drains[d].pc = "pause"
     /\ drains[d].success
     /\ drains[d].attempts = 2
     /\ drains[d].waited = 3000

\* ---- C25 ------------------------------------------------------------------
\* C25: GET /api/products answers with an error only in the step where its
\* fetch has failed and there is no products entry; a request that finds an
\* entry, fresh or stale, is answered at once with the data of the entry;
\* a handler whose fetch returns answers with the data it has just stored;
\* a handler whose fetch fails while an entry exists answers with success
\* and the data of that entry.
C25_StaleFallback ==
  [][/\ GetProducts =>
          (cache[Products].present =>
             /\ response' = Respond(Products, TRUE, cache[Products].data, "cache")
             /\ routes' = routes)
     /\ \A h \in DOMAIN routes :
          /\ \A data \in Data :
               GetProductsFetched(h, data) =>
                  /\ response'.success
                  /\ cache'[Products].present
                  /\ response'.data = cache'[Products].data
          /\ GetProductsFailed(h) =>
               IF cache[Products].present
                 THEN response'.success /\ response'.data = cache[Products].data
                 ELSE ~response'.success
     /\ (response' # response /\ response'.route = Products /\ ~response'.success) =>
          /\ \E h \in DOMAIN routes : GetProductsFailed(h)
          /\ ~cache[Products].present]_vars

\* A handler that missed the cache has had its fetch fail, and answered
\* with the data of an entry that another writer stored in the meantime
\* and that has expired since.
C25_Witness ==
  /\ response.route = Products
  /\ response.success
  /\ response.from = "stale"
  /\ cache[Products].present
  /\ response.data = cache[Products].data
  /\ ~IsFresh(cache, Products, now)

\* ---- C26 ------------------------------------------------------------------
\* C26 (as claimed): once initializeCache has finished, a products entry
\* in the cache has a refresh function registered and a timer running for
\* the products key.
C26_AutoRefreshRegistered ==
  (boot = "done" /\ cache[Products].present) =>
     /\ HasRefresher(refreshCallbacks, Products)
     /\ ActiveTimers(Products) # {}

\* ---- C27 ------------------------------------------------------------------
\* C27 (as claimed): a step in which POST /api/refresh answers with success
\* leaves the products entry holding the data that the refresh function
\* fetched for this request, written in this step.
C27_RefreshSuccess ==
  [][((PostRefresh \/ \E i \in DOMAIN refreshing, data \in Data :
                        ProductsRefreshReturn(i, data))
       /\ response' # response
       /\ response'.route = "refresh"
       /\ response'.success) =>
        /\ response'.data \in Data
        /\ cache'[Products].present
        /\ cache'[Products].data = response'.data
        /\ cache'[Products].timestamp = now
        /\ lastWrite'[Products].by = "force"]_vars

\* ---- C28 ------------------------------------------------------------------
\* C28 (as claimed): when no order handler is running, the stock cell of
\* the product is the initial stock less the quantities of the orders
\* answered with success, and 0 if that is negative.
C28_NoLostDecrement ==
  routes = <<>> => stock = Clamp(InitialStock - sold)

C32_CleanCancellation ==
  [][\A i \in DOMAIN refreshing, data \in Data :
        (/\ RefreshReturn(i, data)
         /\ refreshing[i].by = "timer"
         /\ ~\E t \in ActiveTimers(refreshing[i].key) : t.fn = refreshing[i].fn) =>
           cache' = cache]_vars

\* ---- C33 ------------------------------------------------------------------
\* C33: the refresh function of a key is changed by setupAutoRefresh of
\* that key, which registers the one it is given, and by clear, which
\* removes them all, and by nothing else; stopAutoRefresh(k) and delete(k)
\* leave k with no interval, not listed by getStats, and with the function
\* it had; forceRefresh(k) returns null when k has no function, else calls
\* the function registered, and the return of that call leaves an entry.
C33_RegistrationOutlivesTimer ==
  [][/\ (refreshCallbacks' # refreshCallbacks) =>
          \/ CacheClear
          \/ \E k \in Keys, fn \in Fns : CacheSetupAutoRefresh(k, fn)
     /\ CacheClear => \A k \in Keys : refreshCallbacks'[k] = NoFn
     /\ \A k \in Keys :
          /\ \A fn \in Fns :
               CacheSetupAutoRefresh(k, fn) =>
                  /\ refreshCallbacks'[k] = fn
                  /\ \A j \in Keys \ {k} : refreshCallbacks'[j] = refreshCallbacks[j]
          /\ (CacheStopAutoRefresh(k) \/ CacheDelete(k)) =>
               /\ refreshCallbacks' = refreshCallbacks
               /\ {t \in timers' : t.key = k} = {}
               /\ k \notin GetStats([cache |-> cache', callbacks |-> refreshCallbacks',
                                      intervals |-> refreshIntervals',
                                      timers |-> timers']).autoRefreshKeys
          /\ CacheForceRefresh(k) =>
               IF refreshCallbacks[k] = NoFn
                 THEN last'.out = NullOut /\ refreshing' = refreshing
                 ELSE /\ last'.out # NullOut
                      /\ refreshing' = Append(refreshing,
                            [key |-> k, fn |-> refreshCallbacks[k], by |-> "force", at |-> now])
     /\ \A i \in DOMAIN refreshing, data \in Data :
          (RefreshReturn(i, data) /\ refreshing[i].by = "force") =>
             /\ cache'[refreshing[i].key].present
             /\ cache'[refreshing[i].key].data = data]_vars

\* forceRefresh has just been called for a key that has a refresh function
\* but neither an interval nor an entry (it was deleted after the function
\* was registered) and that getStats does not list: the function is running.
C33_Witness ==
  /\ last.op = "forceRefresh"
  /\ last.out = NoOut
  /\ refreshCallbacks[last.key] # NoFn
  /\ ActiveTimers(last.key) = {}
  /\ ~cache[last.key].present
  /\ last.key \notin GetStats(CacheWorld).autoRefreshKeys
  /\ \E i \in ForceRefreshes :
        /\ refreshing[i].key = last.key
        /\ refreshing[i].fn = refreshCallbacks[last.key]

\* ---- C34 ------------------------------------------------------------------
\* C34: an interval that fires calls its refresh function whatever calls
\* are still running, and leaves those running; a call made by an interval
\* that returns r leaves r as the entry of its key, stamped with the time
\* of the return, whichever of the running calls it is, and leaves the
\* others running; so when no call for a key is running its entry is what
\* the call that returned last wrote.
C34_OverlappingRefreshes ==
  /\ [][/\ \A t \in timers :
             TimerTick(t) =>
                /\ refreshing' = Append(refreshing,
                      [key |-> t.key, fn |-> t.fn, by |-> "timer", at |-> now])
                /\ cache' = cache
        /\ \A i \in TimerRefreshes, r \in Data :
             RefreshReturn(i, r) =>
                /\ cache'[refreshing[i].key] =
                      [present |-> TRUE, data |-> r,
                       timestamp |-> now, expiresAt |-> now + CacheTtl]
                /\ lastWrite'[refreshing[i].key] = Written(r, now, "timer")
                /\ refreshing' = RemoveRefresh(refreshing, i)]_vars
  /\ [](\A k \in Keys :
          (cache[k].present /\ lastWrite[k].live) =>
             /\ cache[k].data = lastWrite[k].data
             /\ cache[k].timestamp = lastWrite[k].at)

\* The interval of a key, set up at time 0, has fired at one ttl and at
\* two: the call it made at two ttl has returned and its result is the
\* entry, and the call it made at one ttl is still running.
C34_Witness ==
  /\ now = 2 * CacheTtl
  /\ Len(refreshing) = 1
  /\ refreshing[1].by = "timer"
  /\ refreshing[1].at = CacheTtl
  /\ last.op = "tickReturn"
  /\ last.key = refreshing[1].key
  /\ \A t \in ActiveTimers(last.key) : t.since = 0
  /\ ActiveTimers(last.key) # {}
  /\ lastWrite[last.key] = Written(cache[last.key].data, 2 * CacheTtl, "timer")

\* ---- C35 ------------------------------------------------------------------
\* C35: forceRefresh(k) with a refresh function registered calls it and
\* touches nothing else; when the call returns r, forceRefresh stores r as
\* the entry of k, stamped with the time of the return and expiring one
\* ttl later, returns r, and leaves the intervals, their due times and the
\* registered functions as they were.
C35_ForceRefreshSuccess ==
  [][/\ \A k \in Keys :
          (refreshCallbacks[k] # NoFn /\ CacheForceRefresh(k)) =>
             /\ cache' = cache
             /\ timers' = timers
             /\ refreshIntervals' = refreshIntervals
             /\ refreshCallbacks' = refreshCallbacks
     /\ \A i \in ForceRefreshes, r \in Data :
          RefreshReturn(i, r) =>
             /\ cache'[refreshing[i].key] =
                   [present |-> TRUE, data |-> r,
                    timestamp |-> now, expiresAt |-> now + CacheTtl]
             /\ \A j \in Keys \ {refreshing[i].key} : cache'[j] = cache[j]
             /\ last'.out = DataOut(r)
             /\ timers' = timers
             /\ refreshIntervals' = refreshIntervals
             /\ refreshCallbacks' = refreshCallbacks]_vars

\* forceRefresh has just returned data for a key whose interval was set up
\* earlier and is due before the new entry expires: the entry is stamped
\* now and the interval is still due when it was.
C35_Witness ==
  /\ last.op = "forceReturn"
  /\ last.out.kind = "data"
  /\ cache[last.key].present
  /\ cache[last.key].data = last.out.value
  /\ cache[last.key].timestamp = now
  /\ cache[last.key].expiresAt = now + CacheTtl
  /\ \E t \in ActiveTimers(last.key) :
        /\ t.since < now
        /\ t.due = t.since + CacheTtl
        /\ t.due < cache[last.key].expiresAt

\* ---- C36 ------------------------------------------------------------------
\* The tables whose name has "order" in it, in whatever case.
NamedOrder == { Orders, UpperOrders, Preorders }

\* C36: appendToSheet hands a call to the queue exactly when useQueue is
\* true and the name of the table has "order" in it in whatever case, and
\* then issues nothing itself; every other call leaves the queue as it is,
\* whatever the drain loop is doing, and issues one append, which writes
\* the rows once if it returns and is not repeated if it throws; with
\* useQueue false no call goes to the queue; and a step of the drain loop
\* adds no task.
C36_QueueRouting ==
  /\ [](\A table \in AllTables, useQueue \in BOOLEAN :
          UsesQueue(table.sheetName, useQueue) <=> (useQueue /\ table \in NamedOrder))
  /\ [][/\ \A table \in RouteTables, useQueue \in BOOLEAN :
             AppendToSheet(table, ScenarioRowsA, useQueue) =>
                IF useQueue /\ table \in NamedOrder
                  THEN /\ Len(tasks') = Len(tasks) + 1
                       /\ tasks'[Len(tasks')].sheetId = table.sheetId
                       /\ tasks'[Len(tasks')].sheetName = table.sheetName
                       /\ routes' = routes
                  ELSE /\ UNCHANGED queueVars
                       /\ routes' = Append(routes,
                             [route |-> "append", pc |-> "appending", table |-> table,
                              rows |-> ScenarioRowsA, useQueue |-> useQueue])
        /\ \A h \in DOMAIN routes :
             /\ DirectAppendOk(h) =>
                  /\ remote' = [remote EXCEPT ![routes[h].table] = @ \o routes[h].rows]
                  /\ Len(routes') = Len(routes) - 1
                  /\ tasks' = tasks /\ drains' = drains /\ appendCalls' = appendCalls
             /\ DirectAppendFail(h) =>
                  /\ remote' = remote
                  /\ Len(routes') = Len(routes) - 1
                  /\ ~response'.success
                  /\ tasks' = tasks /\ drains' = drains /\ appendCalls' = appendCalls
        /\ (Len(tasks') # Len(tasks)) =>
             \E table \in NamedOrder : AppendToSheet(table, ScenarioRowsA, TRUE)]_vars

\* A call with useQueue true for the table named "Purchases" is appending
\* directly while the drain loop is appending a batch for "ORDERS".
C36_Witness ==
  /\ \E h \in DOMAIN routes :
        /\ routes[h].route = "append"
        /\ routes[h].useQueue
        /\ routes[h].table = Purchases
  /\ orderWriteActive
  /\ \E d \in DOMAIN drains :
        /\ drains[d].pc = "appending"
        /\ drains[d].table = UpperOrders

C38_FailureUnambiguous ==
  [][\A h \in DOMAIN routes :
        (OrderSaveFailed(h) \/ StockFailed(h)) =>
           tasks[routes[h].task].written = 0]_vars
====
